---- MODULE Spec2Model ----
(***************************************************************************)
(* Model of the five Lambda handlers of cloud-file-store-sam               *)
(* (src/src/*/app.py): claims extraction, the group check, and the calls   *)
(* each handler makes to the metadata table, the audit table and the       *)
(* object store.                                                           *)
(*                                                                         *)
(* Text that the code inspects character by character (the groups claim,   *)
(* group names, object keys) is a sequence of one-character strings.       *)
(* Text the code only tests for truthiness and copies (email, username,    *)
(* sub, filename) is a TLA+ string, "" standing for an absent claim:       *)
(* Python's `x or y` treats None and "" alike.                             *)
(***************************************************************************)
EXTENDS Integers, Sequences, FiniteSets, TLC

VARIABLES files, objects, history, nextFile, nextDl, checkExists, req, pure

vars == <<files, objects, history, nextFile, nextDl, checkExists, req, pure>>

(***************************************************************************)
(* Bounds                                                                  *)
(***************************************************************************)
MaxFiles == 2
MaxAudit == 1
MaxGroups == 2
\* download identifiers drawn in a run that follows the audit table
MaxAuditLog == 2

(***************************************************************************)
(* Python string primitives                                                *)
(***************************************************************************)
UpperChars == <<"A", "B", "C", "D", "E", "F", "G", "H", "I", "J", "K", "L", "M",
                "N", "O", "P", "Q", "R", "S", "T", "U", "V", "W", "X", "Y", "Z">>
LowerChars == <<"a", "b", "c", "d", "e", "f", "g", "h", "i", "j", "k", "l", "m",
                "n", "o", "p", "q", "r", "s", "t", "u", "v", "w", "x", "y", "z">>

\* str.lower(), one character
LowerChar(c) ==
  IF \E i \in 1..Len(UpperChars) : UpperChars[i] = c
  THEN LowerChars[CHOOSE i \in 1..Len(UpperChars) : UpperChars[i] = c]
  ELSE c

\* str.lower()
Lower(s) == [i \in 1..Len(s) |-> LowerChar(s[i])]

IsSpace(c) == c \in {" ", "\t"}

RECURSIVE LStrip(_, _)
LStrip(s, cs) ==
  IF s # <<>> /\ Head(s) \in cs THEN LStrip(Tail(s), cs) ELSE s

RECURSIVE RStrip(_, _)
RStrip(s, cs) ==
  IF s # <<>> /\ s[Len(s)] \in cs THEN RStrip(SubSeq(s, 1, Len(s) - 1), cs) ELSE s

\* str.strip(chars)
StripChars(s, cs) == RStrip(LStrip(s, cs), cs)

\* str.strip()
Strip(s) == StripChars(s, {" ", "\t"})

\* str.replace(c, "")
RemoveChar(s, c) == SelectSeq(s, LAMBDA x : x # c)

\* str.split(sep): empty tokens are kept
RECURSIVE SplitOn(_, _, _)
SplitOn(s, sep, cur) ==
  IF s = <<>> THEN <<cur>>
  ELSE IF Head(s) = sep THEN <<cur>> \o SplitOn(Tail(s), sep, <<>>)
  ELSE SplitOn(Tail(s), sep, Append(cur, Head(s)))

\* str.split(): runs of whitespace separate, no empty tokens
RECURSIVE SplitWs(_, _)
SplitWs(s, cur) ==
  IF s = <<>> THEN (IF cur = <<>> THEN <<>> ELSE <<cur>>)
  ELSE IF IsSpace(Head(s))
       THEN (IF cur = <<>> THEN <<>> ELSE <<cur>>) \o SplitWs(Tail(s), <<>>)
  ELSE SplitWs(Tail(s), Append(cur, Head(s)))

\* [g.strip() for g in toks if g.strip()]
StripTokens(toks) ==
  SelectSeq([i \in 1..Len(toks) |-> Strip(toks[i])], LAMBDA g : g # <<>>)

(***************************************************************************)
(* json.loads restricted to what the groups claim can carry here: an array *)
(* of double-quoted strings without escapes, whitespace allowed between    *)
(* the tokens.  Any other text raises (ok = FALSE).                        *)
(***************************************************************************)
RECURSIVE SkipWs(_, _)
SkipWs(s, i) == IF i <= Len(s) /\ IsSpace(s[i]) THEN SkipWs(s, i + 1) ELSE i

RECURSIVE CloseQuote(_, _)
CloseQuote(s, i) ==
  IF i > Len(s) THEN 0
  ELSE IF s[i] = "\"" THEN i
  ELSE CloseQuote(s, i + 1)

RECURSIVE JsonElems(_, _, _)
JsonElems(s, i, acc) ==
  IF i > Len(s) \/ s[i] # "\"" THEN [ok |-> FALSE, val |-> <<>>]
  ELSE LET j == CloseQuote(s, i + 1) IN
       IF j = 0 THEN [ok |-> FALSE, val |-> <<>>]
       ELSE LET k == SkipWs(s, j + 1)
                acc2 == Append(acc, SubSeq(s, i + 1, j - 1)) IN
            IF k > Len(s) THEN [ok |-> FALSE, val |-> <<>>]
            ELSE IF s[k] = "," THEN JsonElems(s, SkipWs(s, k + 1), acc2)
            ELSE IF s[k] = "]" /\ SkipWs(s, k + 1) > Len(s)
                 THEN [ok |-> TRUE, val |-> acc2]
            ELSE [ok |-> FALSE, val |-> <<>>]

JsonLoads(s) ==
  LET i == SkipWs(s, 1) IN
  IF i > Len(s) \/ s[i] # "[" THEN [ok |-> FALSE, val |-> <<>>]
  ELSE LET k == SkipWs(s, i + 1) IN
       IF k <= Len(s) /\ s[k] = "]" /\ SkipWs(s, k + 1) > Len(s)
       THEN [ok |-> TRUE, val |-> <<>>]
       ELSE JsonElems(s, k, <<>>)

\* urllib.parse.unquote.  A key is a sequence of path segments and of the
\* characters between them; the only escape the keys here carry is %2F.
RECURSIVE Unquote(_)
Unquote(s) ==
  IF s = <<>> THEN <<>>
  ELSE IF Len(s) >= 3 /\ s[1] = "%" /\ s[2] = "2" /\ s[3] \in {"F", "f"}
       THEN <<"/">> \o Unquote(SubSeq(s, 4, Len(s)))
  ELSE <<Head(s)>> \o Unquote(Tail(s))

(***************************************************************************)
(* Group names and claims                                                  *)
(***************************************************************************)
admin == <<"a", "d", "m", "i", "n">>
Admin == <<"A", "d", "m", "i", "n">>
uploader == <<"u", "p", "l", "o", "a", "d", "e", "r">>
viewer == <<"v", "i", "e", "w", "e", "r">>
guest == <<"g", "u", "e", "s", "t">>

Ops == {"upload", "download", "list", "delete", "record"}

\* x or y
Or(x, y) == IF x # "" THEN x ELSE y

\* A groups claim is a JSON list of strings or a string; an absent claim is
\* the empty string that `claims.get(..) or ""` yields.
GList(l) == [t |-> "list", v |-> l]
GStr(s) == [t |-> "str", v |-> s]

\* claims.get("cognito:groups") or ... or ""  (an empty list is falsy too)
GroupsRaw(claims) ==
  IF claims.groups.v = <<>> THEN GStr(<<>>) ELSE claims.groups

\* presign_upload, presign_download, list_files, delete_file: groups parsing
SimpleGroups(raw) ==
  IF raw.t = "list" THEN raw.v
  ELSE IF raw.v # <<>> THEN StripTokens(SplitOn(raw.v, ",", <<>>))
  ELSE <<>>

\* record_download: groups parsing
RecordGroups(raw) ==
  IF raw.t = "str" /\ raw.v # <<>>
  THEN LET r == Strip(raw.v) IN
       IF r # <<>> /\ Head(r) = "[" /\ r[Len(r)] = "]"
       THEN (IF JsonLoads(r).ok THEN JsonLoads(r).val
             ELSE SplitWs(RemoveChar(StripChars(r, {"[", "]"}), "\""), <<>>))
       ELSE IF \E i \in 1..Len(r) : r[i] = ","
            THEN StripTokens(SplitOn(r, ",", <<>>))
            ELSE StripTokens(SplitWs(r, <<>>))
  ELSE <<>>

\* _get_cognito_info_from_event of each handler
GetCognitoInfo(op, claims) ==
  IF op = "record"
  THEN [username |-> Or(claims.username, Or(claims.email, claims.sub)),
        email |-> claims.email,
        groups |-> RecordGroups(GroupsRaw(claims))]
  ELSE [username |-> Or(claims.email, Or(claims.username, Or(claims.sub, "unknown-user"))),
        email |-> claims.email,
        groups |-> SimpleGroups(GroupsRaw(claims))]

(***************************************************************************)
(* Access decision                                                         *)
(***************************************************************************)
SeqToSet(s) == {s[i] : i \in 1..Len(s)}

LowerSet(s) == {Lower(s[i]) : i \in 1..Len(s)}

HasAnyGroupNoLower(user_groups, allowed) ==
  /\ user_groups # <<>>
  /\ SeqToSet(user_groups) \cap LowerSet(allowed) # {}

\* _has_any_group (presign_upload, presign_download, list_files)
HasAnyGroup(user_groups, allowed) ==
  /\ user_groups # <<>>
  /\ LowerSet(user_groups) \cap LowerSet(allowed) # {}

IsAdminAnyGroup(groups) == groups # <<>>

\* _is_admin (delete_file)
IsAdmin(groups) ==
  /\ groups # <<>>
  /\ \E i \in 1..Len(groups) : Lower(groups[i]) = admin

\* record_download: ALLOWED_GROUPS and the inline test of the handler
ALLOWED_GROUPS == {viewer, uploader, admin}

InlineAllowed(groups) ==
  LET lowered == [i \in 1..Len(groups) |-> Lower(groups[i])] IN
  SeqToSet(lowered) \cap ALLOWED_GROUPS # {}

(***************************************************************************)
(* Requests                                                                *)
(***************************************************************************)
TTL == 900

\* datetime.utcnow().isoformat(): the stores keep whatever the clock gave
NowIso == "2025-01-01T00:00:00"

\* str(uuid.uuid4()): the n-th identifier drawn
FileIdOf(n) == "f" \o ToString(n)
DownloadIdFixed(n) == "d1"
DownloadIdOf(n) == "d" \o ToString(n)

\* f"uploads/{file_id}/{filename}"
KeyOf(file_id, filename) == <<"uploads", "/", file_id, "/", filename>>

\* The same key as API Gateway may deliver it, separators percent-encoded
Quoted(file_id, filename) == <<"uploads", "%", "2", "F", file_id, "%", "2", "F", filename>>

Filenames == {"report.pdf"}

Claims(email, username, sub, groups) ==
  [email |-> email, username |-> username, sub |-> sub, groups |-> groups]

GroupClaims ==
  { GStr(<<>>), GStr(viewer), GStr(guest), GList(<<Admin>>) }

\* No claims at all; a subject without an allowed group; a user with an
\* email in each of the group claims; an uploader whose token carries the
\* email, the username and the subject
ClaimsSet ==
  { Claims("", "", "", GStr(<<>>)),
    Claims("", "", "s1", GStr(<<>>)),
    Claims("", "", "s1", GStr(guest)),
    Claims("e@x", "u1", "s1", GStr(uploader)) }
  \cup { Claims("e@x", "", "", g) : g \in GroupClaims }

FileIds == {FileIdOf(n) : n \in 1..MaxFiles}

RawKeys ==
  {<<>>} \cup {KeyOf(FileIdOf(1), n) : n \in Filenames}
         \cup {Quoted(FileIdOf(1), n) : n \in Filenames}

\* body.get("s3Key"): absent, or the key as the upload response gave it
RecordKeys == {<<>>} \cup {KeyOf(FileIdOf(1), n) : n \in Filenames}

Resp(status, body) == [status |-> status, body |-> body]

NoResp == Resp(0, [none |-> TRUE])

IdleReq == [pc |-> "idle", ev |-> [none |-> TRUE], loc |-> [none |-> TRUE],
            resp |-> NoResp, calls |-> <<>>]

\* A handler returns: the request stays visible until the response is taken
Finish(r, resp) == [r EXCEPT !.pc = "done", !.resp = resp]

Called(r, name) == [r EXCEPT !.calls = Append(r.calls, name)]

Quiet == \A op \in Ops : req[op].pc = "idle"

(***************************************************************************)
(* presign_upload                                                          *)
(***************************************************************************)
UploadBegin(ev) ==
  LET cognito == GetCognitoInfo("upload", ev.claims)
      user_email == Or(cognito.email, Or(cognito.username, "unknown-user"))
      user_groups == cognito.groups
      r == [IdleReq EXCEPT !.ev = ev]
      file_id == FileIdOf(nextFile + 1)
  IN
  IF cognito.username = "unknown-user" /\ user_email = "" /\ user_groups = <<>>
  THEN [r |-> Finish(r, Resp(401, [error |-> "unauthenticated"])), uuids |-> 0]
  ELSE IF ~HasAnyGroup(user_groups, <<admin, uploader>>)
  THEN [r |-> Finish(r, Resp(403, [error |-> "forbidden"])), uuids |-> 0]
  ELSE IF ev.arg = ""
  THEN [r |-> Finish(r, Resp(400, [error |-> "filename is required"])), uuids |-> 0]
  ELSE [r |-> [r EXCEPT !.pc = "sign",
                        !.loc = [user_email |-> user_email, file_id |-> file_id,
                                 filename |-> ev.arg,
                                 key |-> KeyOf(file_id, ev.arg),
                                 sign |-> "pending", put |-> "pending"]],
        uuids |-> 1]

UploadStart(conc) ==
  /\ req["upload"].pc = "idle"
  /\ conc \/ Quiet
  /\ nextFile < MaxFiles
  /\ \E c \in ClaimsSet, fn \in Filenames \cup {""} :
       LET b == UploadBegin([claims |-> c, arg |-> fn]) IN
       /\ req' = [req EXCEPT !["upload"] = b.r]
       /\ nextFile' = nextFile + b.uuids
  /\ UNCHANGED <<files, objects, history, nextDl, checkExists, pure>>

\* s3.generate_presigned_url("put_object", ...)
UploadSign ==
  /\ req["upload"].pc = "sign"
  /\ LET r == Called(req["upload"], "s3.generate_presigned_url") IN
     \E ok \in BOOLEAN :
       req' = [req EXCEPT !["upload"] =
                 IF ok
                 THEN [r EXCEPT !.pc = "put",
                                !.loc = [url |-> [method |-> "put_object", key |-> r.loc.key,
                                                  expires |-> TTL],
                                         sign |-> "ok"] @@ r.loc]
                 ELSE Finish([r EXCEPT !.loc.sign = "raised"],
                             Resp(500, [error |-> "sign"]))]
  /\ UNCHANGED <<files, objects, history, nextFile, nextDl, checkExists, pure>>

UploadPutSwallow ==
  /\ req["upload"].pc = "put"
  /\ LET r == Called(req["upload"], "files_table.put_item")
         l == r.loc IN
     \E ok \in BOOLEAN :
       /\ files' = IF ok
                   THEN [f \in DOMAIN files \cup {l.file_id} |->
                           IF f = l.file_id
                           THEN [fileId |-> l.file_id, s3Key |-> l.key,
                                 filename |-> l.filename, uploadedAt |-> NowIso,
                                 uploadedBy |-> l.user_email]
                           ELSE files[f]]
                   ELSE files
       /\ req' = [req EXCEPT !["upload"] =
                    Finish([r EXCEPT !.loc.put = IF ok THEN "ok" ELSE "raised"],
                           Resp(200, [fileId |-> l.file_id, key |-> l.key,
                                      url |-> l.url, expiresIn |-> TTL,
                                      uploadedBy |-> l.user_email]))]
  /\ UNCHANGED <<objects, history, nextFile, nextDl, checkExists, pure>>

\* files_table.put_item(Item=...)
UploadPut ==
  /\ req["upload"].pc = "put"
  /\ LET r == Called(req["upload"], "files_table.put_item")
         l == r.loc IN
     \E ok \in BOOLEAN :
       IF ok
       THEN /\ files' = [f \in DOMAIN files \cup {l.file_id} |->
                           IF f = l.file_id
                           THEN [fileId |-> l.file_id, s3Key |-> l.key,
                                 filename |-> l.filename, uploadedAt |-> NowIso,
                                 uploadedBy |-> l.user_email]
                           ELSE files[f]]
            /\ req' = [req EXCEPT !["upload"] =
                         Finish([r EXCEPT !.loc.put = "ok"],
                                Resp(200, [fileId |-> l.file_id, key |-> l.key,
                                           url |-> l.url, expiresIn |-> TTL,
                                           uploadedBy |-> l.user_email]))]
       ELSE /\ files' = files
            /\ req' = [req EXCEPT !["upload"] =
                         Finish([r EXCEPT !.loc.put = "raised"],
                                Resp(500, [error |-> "put_item"]))]
  /\ UNCHANGED <<objects, history, nextFile, nextDl, checkExists, pure>>

(***************************************************************************)
(* presign_download                                                        *)
(***************************************************************************)
DownloadBeginAlwaysProbe(ev) ==
  LET cognito == GetCognitoInfo("download", ev.claims)
      username == cognito.username
      email == cognito.email
      groups == cognito.groups
      r == [IdleReq EXCEPT !.ev = ev]
      key == Unquote(ev.arg)
  IN
  IF username = "unknown-user" /\ email = "" /\ groups = <<>>
  THEN Finish(r, Resp(401, [error |-> "unauthenticated"]))
  ELSE IF ~HasAnyGroup(groups, <<admin, uploader, viewer>>)
  THEN Finish(r, Resp(403, [error |-> "forbidden"]))
  ELSE IF ev.arg = <<>>
  THEN Finish(r, Resp(400, [error |-> "query parameter 'key' is required"]))
  ELSE [r EXCEPT !.pc = "head",
                 !.loc = [username |-> username, email |-> email, groups |-> groups,
                          key |-> key, head |-> "unprobed",
                          sign |-> "pending", audit |-> "pending"]]

DownloadBegin(ev) ==
  LET cognito == GetCognitoInfo("download", ev.claims)
      username == cognito.username
      email == cognito.email
      groups == cognito.groups
      r == [IdleReq EXCEPT !.ev = ev]
      key == Unquote(ev.arg)
  IN
  IF username = "unknown-user" /\ email = "" /\ groups = <<>>
  THEN Finish(r, Resp(401, [error |-> "unauthenticated"]))
  ELSE IF ~HasAnyGroup(groups, <<admin, uploader, viewer>>)
  THEN Finish(r, Resp(403, [error |-> "forbidden"]))
  ELSE IF ev.arg = <<>>
  THEN Finish(r, Resp(400, [error |-> "query parameter 'key' is required"]))
  ELSE [r EXCEPT !.pc = IF checkExists THEN "head" ELSE "sign",
                 !.loc = [username |-> username, email |-> email, groups |-> groups,
                          key |-> key, head |-> "unprobed",
                          sign |-> "pending", audit |-> "pending"]]

DownloadStart(conc) ==
  /\ req["download"].pc = "idle"
  /\ conc \/ Quiet
  /\ \E c \in ClaimsSet, k \in RawKeys :
       req' = [req EXCEPT !["download"] = DownloadBegin([claims |-> c, arg |-> k])]
  /\ UNCHANGED <<files, objects, history, nextFile, nextDl, checkExists, pure>>

\* What s3.head_object can answer for a key: "" is success, anything else the
\* Error.Code of the ClientError it raises
HeadCodes(key) ==
  IF key \in objects THEN {"", "AccessDenied"} ELSE {"404", "AccessDenied"}

NotFoundCodesNoSuchKeyOnly == {"NoSuchKey", "NotFound"}

\* code in ("404", "NoSuchKey", "NotFound")
NotFoundCodes == {"404", "NoSuchKey", "NotFound"}

DownloadHeadIgnoresNotFound ==
  /\ req["download"].pc = "head"
  /\ \E code \in HeadCodes(req["download"].loc.key) :
       LET r0 == Called(req["download"], "s3.head_object")
           r == [r0 EXCEPT !.loc.head = code] IN
       req' = [req EXCEPT !["download"] =
                 IF code = "" \/ code \in NotFoundCodes THEN [r EXCEPT !.pc = "sign"]
                 ELSE Finish(r, Resp(500, [error |-> "ClientError"]))]
  /\ UNCHANGED <<files, objects, history, nextFile, nextDl, checkExists, pure>>

\* s3.head_object(...) and the except clause around it
DownloadHead ==
  /\ req["download"].pc = "head"
  /\ \E code \in HeadCodes(req["download"].loc.key) :
       LET r0 == Called(req["download"], "s3.head_object")
           r == [r0 EXCEPT !.loc.head = code] IN
       req' = [req EXCEPT !["download"] =
                 IF code = "" THEN [r EXCEPT !.pc = "sign"]
                 ELSE IF code \in NotFoundCodes
                 THEN Finish(r, Resp(404, [error |-> "object not found", key |-> r.loc.key]))
                 ELSE Finish(r, Resp(500, [error |-> "ClientError"]))]
  /\ UNCHANGED <<files, objects, history, nextFile, nextDl, checkExists, pure>>

\* s3.generate_presigned_url("get_object", ...), then download_id = uuid4();
\* signedWhilePresent is a history field: whether an object was under the key
\* when the URL was generated
DownloadSign ==
  /\ req["download"].pc = "sign"
  /\ LET r == Called(req["download"], "s3.generate_presigned_url") IN
     \E ok \in BOOLEAN :
       IF ok
       THEN /\ req' = [req EXCEPT !["download"] =
                         [r EXCEPT !.pc = "audit",
                                   !.loc = [url |-> [method |-> "get_object", key |-> r.loc.key,
                                                     expires |-> TTL],
                                            download_id |-> DownloadIdOf(nextDl + 1),
                                            signedWhilePresent |-> r.loc.key \in objects,
                                            sign |-> "ok"]
                                           @@ r.loc]]
            /\ nextDl' = nextDl + 1
       ELSE /\ req' = [req EXCEPT !["download"] =
                         Finish([r EXCEPT !.loc.sign = "raised"],
                                Resp(500, [error |-> "sign"]))]
            /\ nextDl' = nextDl
  /\ UNCHANGED <<files, objects, history, nextFile, checkExists, pure>>

DownloadAuditFatal ==
  /\ req["download"].pc = "audit"
  /\ LET r == Called(req["download"], "history_table.put_item")
         l == r.loc
         history_item ==
           [downloadId |-> l.download_id, s3Key |-> l.key, versionId |-> "",
            requestedBy |-> Or(l.email, Or(l.username, "unknown")),
            requestedAt |-> NowIso, ip |-> "", userAgent |-> "",
            asAttachment |-> TRUE, downloadName |-> "", ttlSeconds |-> TTL,
            userGroups |-> l.groups] IN
     \E ok \in BOOLEAN :
       /\ history' = IF ok
                     THEN [d \in DOMAIN history \cup {l.download_id} |->
                             IF d = l.download_id THEN history_item ELSE history[d]]
                     ELSE history
       /\ req' = [req EXCEPT !["download"] =
                    IF ok
                    THEN Finish([r EXCEPT !.loc.audit = "ok"],
                                Resp(200, [url |-> l.url, expiresIn |-> TTL]))
                    ELSE Finish([r EXCEPT !.loc.audit = "raised"],
                                Resp(500, [error |-> "put_item"]))]
  /\ UNCHANGED <<files, objects, nextFile, nextDl, checkExists, pure>>

\* history_table.put_item(Item=history_item), failure swallowed
DownloadAudit ==
  /\ req["download"].pc = "audit"
  /\ LET r == Called(req["download"], "history_table.put_item")
         l == r.loc
         history_item ==
           [downloadId |-> l.download_id, s3Key |-> l.key, versionId |-> "",
            requestedBy |-> Or(l.email, Or(l.username, "unknown")),
            requestedAt |-> NowIso, ip |-> "", userAgent |-> "",
            asAttachment |-> TRUE, downloadName |-> "", ttlSeconds |-> TTL,
            userGroups |-> l.groups] IN
     \E ok \in BOOLEAN :
       /\ history' = IF ok
                     THEN [d \in DOMAIN history \cup {l.download_id} |->
                             IF d = l.download_id THEN history_item ELSE history[d]]
                     ELSE history
       /\ req' = [req EXCEPT !["download"] =
                    Finish([r EXCEPT !.loc.audit = IF ok THEN "ok" ELSE "raised"],
                           Resp(200, [url |-> l.url, expiresIn |-> TTL]))]
  /\ UNCHANGED <<files, objects, nextFile, nextDl, checkExists, pure>>

(***************************************************************************)
(* list_files                                                              *)
(***************************************************************************)
ListBegin(ev) ==
  LET cognito == GetCognitoInfo("list", ev.claims)
      groups == cognito.groups
      r == [IdleReq EXCEPT !.ev = ev]
  IN
  IF groups = <<>>
  THEN Finish(r, Resp(401, [error |-> "unauthenticated - no groups"]))
  ELSE IF ~HasAnyGroup(groups, <<admin, uploader, viewer>>)
  THEN Finish(r, Resp(403, [error |-> "forbidden"]))
  ELSE [r EXCEPT !.pc = "scan", !.loc = [scan |-> "pending"]]

ListStart(conc) ==
  /\ req["list"].pc = "idle"
  /\ conc \/ Quiet
  /\ \E c \in ClaimsSet :
       req' = [req EXCEPT !["list"] = ListBegin([claims |-> c, arg |-> ""])]
  /\ UNCHANGED <<files, objects, history, nextFile, nextDl, checkExists, pure>>

RECURSIVE ScanItems(_, _)

ScanItemsFirstOnly(tbl, n) ==
  LET present == {k \in 1..n : FileIdOf(k) \in DOMAIN tbl} IN
  IF present = {} THEN <<>>
  ELSE LET f == FileIdOf(CHOOSE k \in present : \A j \in present : k <= j) IN
       <<[fileId |-> tbl[f].fileId, key |-> tbl[f].s3Key,
          filename |-> tbl[f].filename, uploadedAt |-> tbl[f].uploadedAt,
          uploadedBy |-> tbl[f].uploadedBy]>>

\* response.get("Items", []) normalised, in the order of the identifiers
ScanItems(tbl, n) ==
  IF n = 0 THEN <<>>
  ELSE LET rest == ScanItems(tbl, n - 1)
           f == FileIdOf(n) IN
       IF f \in DOMAIN tbl
       THEN Append(rest, [fileId |-> tbl[f].fileId, key |-> tbl[f].s3Key,
                          filename |-> tbl[f].filename,
                          uploadedAt |-> tbl[f].uploadedAt,
                          uploadedBy |-> tbl[f].uploadedBy])
       ELSE rest

\* files_table.scan()
ListScan ==
  /\ req["list"].pc = "scan"
  /\ LET r == Called(req["list"], "files_table.scan") IN
     \E ok \in BOOLEAN :
       req' = [req EXCEPT !["list"] =
                 IF ok
                 THEN Finish([r EXCEPT !.loc.scan = "ok"],
                             Resp(200, [files |-> ScanItems(files, nextFile)]))
                 ELSE Finish([r EXCEPT !.loc.scan = "raised"],
                             Resp(500, [error |-> "scan"]))]
  /\ UNCHANGED <<files, objects, history, nextFile, nextDl, checkExists, pure>>

(***************************************************************************)
(* delete_file                                                             *)
(***************************************************************************)
DeleteBeginLookupFirst(ev) ==
  LET file_id == ev.arg
      groups == GetCognitoInfo("delete", ev.claims).groups
      r == [IdleReq EXCEPT !.ev = ev]
  IN
  IF file_id = ""
  THEN Finish(r, Resp(400, [error |-> "missing path parameter 'fileId'"]))
  ELSE IF ~IsAdmin(groups)
  THEN Finish(Called(r, "files_table.get_item"), Resp(403, [error |-> "admin only"]))
  ELSE [r EXCEPT !.pc = "get",
                 !.loc = [file_id |-> file_id, item |-> "pending", s3_key |-> <<>>,
                          s3 |-> "pending", ddb |-> "pending"]]

DeleteBegin(ev) ==
  LET file_id == ev.arg
      cognito == GetCognitoInfo("delete", ev.claims)
      groups == cognito.groups
      r == [IdleReq EXCEPT !.ev = ev]
  IN
  IF file_id = ""
  THEN Finish(r, Resp(400, [error |-> "missing path parameter 'fileId'"]))
  ELSE IF ~IsAdmin(groups)
  THEN Finish(r, Resp(403, [error |-> "admin only"]))
  ELSE [r EXCEPT !.pc = "get",
                 !.loc = [file_id |-> file_id, item |-> "pending", s3_key |-> <<>>,
                          s3 |-> "pending", ddb |-> "pending"]]

DeleteStart(conc) ==
  /\ req["delete"].pc = "idle"
  /\ conc \/ Quiet
  /\ \E c \in ClaimsSet, f \in FileIds \cup {""} :
       req' = [req EXCEPT !["delete"] = DeleteBegin([claims |-> c, arg |-> f])]
  /\ UNCHANGED <<files, objects, history, nextFile, nextDl, checkExists, pure>>

DeleteGetNoItemCheck ==
  /\ req["delete"].pc = "get"
  /\ LET r == Called(req["delete"], "files_table.get_item")
         file_id == r.loc.file_id IN
     \E ok \in BOOLEAN :
       req' = [req EXCEPT !["delete"] =
                 IF ~ok
                 THEN Finish([r EXCEPT !.loc.item = "raised"],
                             Resp(500, [error |-> "get_item"]))
                 ELSE IF file_id \notin DOMAIN files
                 THEN Finish([r EXCEPT !.loc.item = "none"],
                             Resp(500, [error |-> "AttributeError"]))
                 ELSE [r EXCEPT !.pc = "delobj", !.loc.item = "found",
                                !.loc.s3_key = files[file_id].s3Key]]
  /\ UNCHANGED <<files, objects, history, nextFile, nextDl, checkExists, pure>>

\* files_table.get_item(Key={"fileId": file_id}) and the checks on the item
DeleteGet ==
  /\ req["delete"].pc = "get"
  /\ LET r == Called(req["delete"], "files_table.get_item")
         file_id == r.loc.file_id IN
     \E ok \in BOOLEAN :
       req' = [req EXCEPT !["delete"] =
                 IF ~ok
                 THEN Finish([r EXCEPT !.loc.item = "raised"],
                             Resp(500, [error |-> "get_item"]))
                 ELSE IF file_id \notin DOMAIN files
                 THEN Finish([r EXCEPT !.loc.item = "none"],
                             Resp(404, [error |-> "file metadata not found",
                                        fileId |-> file_id]))
                 ELSE IF files[file_id].s3Key = <<>>
                 THEN Finish([r EXCEPT !.loc.item = "found"],
                             Resp(500, [error |-> "file metadata missing s3Key",
                                        fileId |-> file_id]))
                 ELSE [r EXCEPT !.pc = "delobj", !.loc.item = "found",
                                !.loc.s3_key = files[file_id].s3Key]]
  /\ UNCHANGED <<files, objects, history, nextFile, nextDl, checkExists, pure>>

DeleteObjectFatal ==
  /\ req["delete"].pc = "delobj"
  /\ LET r == Called(req["delete"], "s3.delete_object") IN
     \E ok \in BOOLEAN :
       /\ objects' = IF ok THEN objects \ {r.loc.s3_key} ELSE objects
       /\ req' = [req EXCEPT !["delete"] =
                    IF ok THEN [r EXCEPT !.pc = "delmeta", !.loc.s3 = "ok"]
                    ELSE Finish([r EXCEPT !.loc.s3 = "raised"],
                                Resp(500, [error |-> "delete_object"]))]
  /\ UNCHANGED <<files, history, nextFile, nextDl, checkExists, pure>>

\* s3.delete_object(Bucket=BUCKET, Key=s3_key), failure logged and ignored
DeleteObject ==
  /\ req["delete"].pc = "delobj"
  /\ LET r == Called(req["delete"], "s3.delete_object") IN
     \E ok \in BOOLEAN :
       /\ objects' = IF ok THEN objects \ {r.loc.s3_key} ELSE objects
       /\ req' = [req EXCEPT !["delete"] =
                    [r EXCEPT !.pc = "delmeta",
                              !.loc.s3 = IF ok THEN "ok" ELSE "raised"]]
  /\ UNCHANGED <<files, history, nextFile, nextDl, checkExists, pure>>

DeleteMetaSwallow ==
  /\ req["delete"].pc = "delmeta"
  /\ LET r == Called(req["delete"], "files_table.delete_item")
         l == r.loc IN
     \E ok \in BOOLEAN :
       /\ files' = IF ok THEN [f \in DOMAIN files \ {l.file_id} |-> files[f]] ELSE files
       /\ req' = [req EXCEPT !["delete"] =
                    Finish([r EXCEPT !.loc.ddb = IF ok THEN "ok" ELSE "raised"],
                           Resp(200, [deleted |-> TRUE, fileId |-> l.file_id,
                                      s3Key |-> l.s3_key]))]
  /\ UNCHANGED <<objects, history, nextFile, nextDl, checkExists, pure>>

\* files_table.delete_item(Key={"fileId": file_id}) and the final response
DeleteMeta ==
  /\ req["delete"].pc = "delmeta"
  /\ LET r == Called(req["delete"], "files_table.delete_item")
         l == r.loc IN
     \E ok \in BOOLEAN :
       IF ok
       THEN /\ files' = [f \in DOMAIN files \ {l.file_id} |-> files[f]]
            /\ req' = [req EXCEPT !["delete"] =
                         Finish([r EXCEPT !.loc.ddb = "ok"],
                                Resp(200, [deleted |-> TRUE, fileId |-> l.file_id,
                                           s3Key |-> l.s3_key]))]
       ELSE /\ files' = files
            /\ req' = [req EXCEPT !["delete"] =
                         Finish([r EXCEPT !.loc.ddb = "raised"],
                                Resp(500, [error |-> "failed to delete metadata",
                                           fileId |-> l.file_id]))]
  /\ UNCHANGED <<objects, history, nextFile, nextDl, checkExists, pure>>

(***************************************************************************)
(* record_download                                                         *)
(***************************************************************************)
RecordBegin(ev) ==
  LET identity == GetCognitoInfo("record", ev.claims)
      user_email == Or(identity.email, Or(identity.username, "anonymous"))
      groups == [i \in 1..Len(identity.groups) |-> Lower(identity.groups[i])]
      r == [IdleReq EXCEPT !.ev = ev]
  IN
  IF SeqToSet(groups) \cap ALLOWED_GROUPS = {}
  THEN [r |-> Finish(r, Resp(403, [error |-> "forbidden"])), uuids |-> 0]
  ELSE IF ev.arg = <<>>
  THEN [r |-> Finish(r, Resp(400, [error |-> "s3Key (or key) is required in body"])),
        uuids |-> 0]
  ELSE [r |-> [r EXCEPT !.pc = "put",
                        !.loc = [user_email |-> user_email, groups |-> groups,
                                 s3_key |-> ev.arg,
                                 download_id |-> DownloadIdOf(nextDl + 1),
                                 put |-> "pending"]],
        uuids |-> 1]

RecordStart(conc) ==
  /\ req["record"].pc = "idle"
  /\ conc \/ Quiet
  /\ \E c \in ClaimsSet, k \in RecordKeys :
       LET b == RecordBegin([claims |-> c, arg |-> k]) IN
       /\ req' = [req EXCEPT !["record"] = b.r]
       /\ nextDl' = nextDl + b.uuids
  /\ UNCHANGED <<files, objects, history, nextFile, checkExists, pure>>

RecordPutSwallow ==
  /\ req["record"].pc = "put"
  /\ LET r == Called(req["record"], "history_table.put_item")
         l == r.loc
         item == [downloadId |-> l.download_id, s3Key |-> l.s3_key, versionId |-> "",
                  requestedBy |-> l.user_email, requestedAt |-> NowIso,
                  asAttachment |-> TRUE, downloadName |-> "", ttlSeconds |-> TTL,
                  requesterGroups |-> l.groups] IN
     \E ok \in BOOLEAN :
       /\ history' = IF ok
                     THEN [d \in DOMAIN history \cup {l.download_id} |->
                             IF d = l.download_id THEN item ELSE history[d]]
                     ELSE history
       /\ req' = [req EXCEPT !["record"] =
                    Finish([r EXCEPT !.loc.put = IF ok THEN "ok" ELSE "raised"],
                           Resp(201, [recordCreated |-> TRUE,
                                      downloadId |-> l.download_id,
                                      s3Key |-> l.s3_key]))]
  /\ UNCHANGED <<files, objects, nextFile, nextDl, checkExists, pure>>

\* history_table.put_item(Item=item)
RecordPut ==
  /\ req["record"].pc = "put"
  /\ LET r == Called(req["record"], "history_table.put_item")
         l == r.loc
         item == [downloadId |-> l.download_id, s3Key |-> l.s3_key, versionId |-> "",
                  requestedBy |-> l.user_email, requestedAt |-> NowIso,
                  asAttachment |-> TRUE, downloadName |-> "", ttlSeconds |-> TTL,
                  requesterGroups |-> l.groups] IN
     \E ok \in BOOLEAN :
       IF ok
       THEN /\ history' = [d \in DOMAIN history \cup {l.download_id} |->
                             IF d = l.download_id THEN item ELSE history[d]]
            /\ req' = [req EXCEPT !["record"] =
                         Finish([r EXCEPT !.loc.put = "ok"],
                                Resp(201, [recordCreated |-> TRUE,
                                           downloadId |-> l.download_id,
                                           s3Key |-> l.s3_key]))]
       ELSE /\ history' = history
            /\ req' = [req EXCEPT !["record"] =
                         Finish([r EXCEPT !.loc.put = "raised"],
                                Resp(500, [error |-> "AWS error"]))]
  /\ UNCHANGED <<files, objects, nextFile, nextDl, checkExists, pure>>

(***************************************************************************)
(* The caller and the client                                               *)
(***************************************************************************)
\* API Gateway hands the response back; the invocation is over
Return(op) ==
  /\ req[op].pc = "done"
  /\ req' = [req EXCEPT ![op] = IdleReq]
  /\ UNCHANGED <<files, objects, history, nextFile, nextDl, checkExists, pure>>

\* requests.put(upload["url"], ...): the client stores the bytes under a key
\* it was given an upload URL for
ClientPut ==
  /\ \E f \in DOMAIN files :
       /\ files[f].s3Key \notin objects
       /\ objects' = objects \cup {files[f].s3Key}
  /\ UNCHANGED <<files, history, nextFile, nextDl, checkExists, req, pure>>

NoPure == [fn |-> "none", done |-> TRUE]

Init ==
  /\ files = <<>>
  /\ objects = {}
  /\ history = <<>>
  /\ nextFile = 0
  /\ nextDl = 0
  /\ checkExists \in BOOLEAN
  /\ req = [op \in Ops |-> IdleReq]
  /\ pure = NoPure

Next ==
  \/ UploadStart(FALSE)
  \/ UploadSign
  \/ UploadPut
  \/ nextDl < MaxAudit /\ DownloadStart(FALSE)
  \/ DownloadHead
  \/ DownloadSign
  \/ DownloadAudit
  \/ ListStart(FALSE)
  \/ ListScan
  \/ DeleteStart(FALSE)
  \/ DeleteGet
  \/ DeleteObject
  \/ DeleteMeta
  \/ nextDl < MaxAudit /\ RecordStart(FALSE)
  \/ RecordPut
  \/ \E op \in Ops : Return(op)
  \/ ClientPut

Spec == Init /\ [][Next]_vars

(***************************************************************************)
(* Two Lambda invocations at once: an issue-download-url request and a     *)
(* delete-file request interleave at their external calls.  The stores     *)
(* start as one completed upload leaves them.                              *)
(***************************************************************************)
InitConc ==
  /\ files = [f \in {FileIdOf(1)} |->
                [fileId |-> FileIdOf(1), s3Key |-> KeyOf(FileIdOf(1), "report.pdf"),
                 filename |-> "report.pdf", uploadedAt |-> NowIso,
                 uploadedBy |-> "e@x"]]
  /\ objects = {KeyOf(FileIdOf(1), "report.pdf")}
  /\ history = <<>>
  /\ nextFile = 1
  /\ nextDl = 0
  /\ checkExists = TRUE
  /\ req = [op \in Ops |-> IdleReq]
  /\ pure = NoPure

NextConc ==
  \/ nextDl < MaxAudit /\ DownloadStart(TRUE)
  \/ DownloadHead
  \/ DownloadSign
  \/ DownloadAudit
  \/ DeleteStart(TRUE)
  \/ DeleteGet
  \/ DeleteObject
  \/ DeleteMeta
  \/ \E op \in {"download", "delete"} : Return(op)

SpecConc == InitConc /\ [][NextConc]_vars

(***************************************************************************)
(* The five handlers one request at a time, as in Spec, with room for      *)
(* MaxAuditLog audit writes; no client stores bytes, so the bucket stays   *)
(* empty and only the tables move.                                         *)
(***************************************************************************)
NextAudit ==
  \/ UploadStart(FALSE)
  \/ UploadSign
  \/ UploadPut
  \/ nextDl < MaxAuditLog /\ DownloadStart(FALSE)
  \/ DownloadHead
  \/ DownloadSign
  \/ DownloadAudit
  \/ ListStart(FALSE)
  \/ ListScan
  \/ DeleteStart(FALSE)
  \/ DeleteGet
  \/ DeleteObject
  \/ DeleteMeta
  \/ nextDl < MaxAuditLog /\ RecordStart(FALSE)
  \/ RecordPut
  \/ \E op \in Ops : Return(op)

SpecAudit == Init /\ [][NextAudit]_vars

(***************************************************************************)
(* The claims normalizer and the access decision on their own: the inputs  *)
(* are drawn in the initial state and one step applies the function.       *)
(***************************************************************************)
SeqsUpTo(S, n) == UNION {[1..k -> S] : k \in 0..n}

CallerNames == {admin, Admin, viewer, uploader, guest}

AllowedLists == {<<>>, <<admin>>, <<Admin>>, <<admin, uploader>>, <<admin, uploader, viewer>>}

LogicalNames == {viewer, uploader, admin}

AccessInputs ==
  { [fn |-> "access", done |-> FALSE, user |-> u, allowed |-> a,
     out |-> [has |-> FALSE, admin |-> FALSE, inline |-> FALSE]] :
      u \in SeqsUpTo(CallerNames, MaxGroups), a \in AllowedLists }

NormInputs ==
  { [fn |-> "norm", done |-> FALSE, op |-> op, logical |-> l,
     out |-> [list |-> {}, comma |-> {}, space |-> {}, json |-> {}]] :
      op \in Ops, l \in SeqsUpTo(LogicalNames, MaxGroups) }

RECURSIVE Join(_, _)
Join(l, sep) ==
  IF l = <<>> THEN <<>>
  ELSE IF Len(l) = 1 THEN l[1]
  ELSE l[1] \o <<sep>> \o Join(Tail(l), sep)

\* The four shapes in which an identity provider delivers one set of groups
Encode(enc, l) ==
  CASE enc = "list" -> GList(l)
    [] enc = "comma" -> GStr(Join(l, ","))
    [] enc = "space" -> GStr(Join(l, " "))
    [] enc = "json" ->
         GStr(<<"[">> \o Join([i \in 1..Len(l) |-> <<"\"">> \o l[i] \o <<"\"">>], ",")
                      \o <<"]">>)

GroupSetOf(op, enc, l) ==
  SeqToSet(GetCognitoInfo(op, Claims("e@x", "", "", Encode(enc, l))).groups)

EvalAccess ==
  /\ pure.fn = "access"
  /\ ~pure.done
  /\ pure' = [pure EXCEPT !.done = TRUE,
                          !.out = [has |-> HasAnyGroup(pure.user, pure.allowed),
                                   admin |-> IsAdmin(pure.user),
                                   inline |-> InlineAllowed(pure.user)]]
  /\ UNCHANGED <<files, objects, history, nextFile, nextDl, checkExists, req>>

EvalNorm ==
  /\ pure.fn = "norm"
  /\ ~pure.done
  /\ pure' = [pure EXCEPT !.done = TRUE,
                          !.out = [list |-> GroupSetOf(pure.op, "list", pure.logical),
                                   comma |-> GroupSetOf(pure.op, "comma", pure.logical),
                                   space |-> GroupSetOf(pure.op, "space", pure.logical),
                                   json |-> GroupSetOf(pure.op, "json", pure.logical)]]
  /\ UNCHANGED <<files, objects, history, nextFile, nextDl, checkExists, req>>

InitPure ==
  /\ files = <<>>
  /\ objects = {}
  /\ history = <<>>
  /\ nextFile = 0
  /\ nextDl = 0
  /\ checkExists = TRUE
  /\ req = [op \in Ops |-> IdleReq]
  /\ pure \in AccessInputs \cup NormInputs

NextPure == EvalAccess \/ EvalNorm

SpecPure == InitPure /\ [][NextPure]_vars

(***************************************************************************)
(* Vocabulary of the properties                                            *)
(***************************************************************************)
SameLetter(a, b) ==
  \E i \in 1..Len(UpperChars) : {a, b} = {UpperChars[i], LowerChars[i]}

EqIgnoreCase(x, y) ==
  /\ Len(x) = Len(y)
  /\ \A k \in 1..Len(x) : x[k] = y[k] \/ SameLetter(x[k], y[k])

\* The case-insensitive intersection of two sets of names is non-empty
CIIntersects(G, A) == \E g \in G, a \in A : EqIgnoreCase(g, a)

\* The fixed row of each operation
PolicyRow(op) ==
  CASE op = "upload" -> {uploader, admin}
    [] op = "download" -> {viewer, uploader, admin}
    [] op = "list" -> {viewer, uploader, admin}
    [] op = "delete" -> {admin}
    [] op = "record" -> {viewer, uploader, admin}

\* The names a groups claim carries, whatever its encoding: the maximal runs
\* of characters other than separators, brackets and quotes
RECURSIVE Tokens(_, _)
Tokens(s, cur) ==
  LET flush == IF cur = <<>> THEN {} ELSE {cur} IN
  IF s = <<>> THEN flush
  ELSE IF Head(s) \in {",", " ", "\t", "[", "]", "\""}
       THEN flush \cup Tokens(Tail(s), <<>>)
  ELSE Tokens(Tail(s), Append(cur, Head(s)))

HeldGroups(claims) ==
  IF claims.groups.t = "list" THEN SeqToSet(claims.groups.v)
  ELSE Tokens(claims.groups.v, <<>>)

NoIdentity(claims) ==
  /\ claims.email = "" /\ claims.username = "" /\ claims.sub = ""
  /\ claims.groups.v = <<>>

Identified(claims) == claims.email # "" \/ claims.username # "" \/ claims.sub # ""

\* The required filename / key / fileId / s3Key is present
WellFormed(op) ==
  CASE op \in {"upload", "delete"} -> req[op].ev.arg # ""
    [] op \in {"download", "record"} -> req[op].ev.arg # <<>>
    [] op = "list" -> TRUE

Answered(op) == req[op].pc = "done"

Status(op) == req[op].resp.status

\* The handler is beyond its group check: it is at an external call, or it
\* answered after one, or it answered 400 from a validation that follows
\* the check (delete_file validates before it)
PastAuth(op) ==
  \/ req[op].pc \notin {"idle", "done"}
  \/ /\ req[op].pc = "done"
     /\ \/ req[op].calls # <<>>
        \/ op # "delete" /\ Status(op) = 400

(***************************************************************************)
(* Properties                                                              *)
(***************************************************************************)

\* C1: a handler gets past its authorization step only if the caller holds,
\* compared case-insensitively, a group of the operation's fixed row.
C1_OnlyRowGroupsPass ==
  \A op \in Ops :
    PastAuth(op) => CIIntersects(HeldGroups(req[op].ev.claims), PolicyRow(op))

C1_Witness ==
  /\ req["delete"].pc = "get"
  /\ req["delete"].ev.claims.groups = GList(<<Admin>>)

\* C2: each access decision allows exactly when the case-insensitive
\* intersection of the caller's groups and the allowed groups is non-empty;
\* an empty caller group set is denied, also against an empty allowed list.
C2_AccessDecision ==
  (pure.fn = "access" /\ pure.done) =>
    LET U == SeqToSet(pure.user) IN
    /\ pure.out.has <=> CIIntersects(U, SeqToSet(pure.allowed))
    /\ pure.out.admin <=> CIIntersects(U, {admin})
    /\ pure.out.inline <=> CIIntersects(U, {viewer, uploader, admin})
    /\ pure.user = <<>> => ~pure.out.has /\ ~pure.out.admin /\ ~pure.out.inline

C2_Witness ==
  /\ pure.fn = "access" /\ pure.done
  /\ pure.user = <<Admin>> /\ pure.allowed = <<admin>>
  /\ pure.out.has /\ pure.out.admin /\ pure.out.inline

\* C3: a well-formed request that carries no identity claims at all is
\* answered 401 by every one of the five operations.
C3_NoClaimsIs401 ==
  \A op \in Ops :
    (Answered(op) /\ NoIdentity(req[op].ev.claims) /\ WellFormed(op))
      => Status(op) = 401

\* C4: a request (with its required parameter present) whose claims
\* identify a user holding no group of the operation's row is answered 403,
\* never 401.
C4_IdentifiedWithoutGroupIs403 ==
  \A op \in Ops :
    (/\ Answered(op)
     /\ Identified(req[op].ev.claims)
     /\ WellFormed(op)
     /\ ~CIIntersects(HeldGroups(req[op].ev.claims), PolicyRow(op)))
      => Status(op) = 403

\* C5: the list, comma-separated, whitespace-separated and JSON-array
\* encodings of one set of group names are normalised to that same set by
\* each handler's claims extraction.
C5_EncodingsAgree ==
  (pure.fn = "norm" /\ pure.done) =>
    /\ pure.out.list = SeqToSet(pure.logical)
    /\ pure.out.comma = pure.out.list
    /\ pure.out.space = pure.out.list
    /\ pure.out.json = pure.out.list

\* C6: a handler that answers 400, 401 or 403 has made no external call and
\* the step that produces the answer leaves the metadata table, the audit
\* table and the object store as they were.
C6_FailuresBeforeExternalCalls ==
  [][\A op \in Ops :
       (/\ req[op].pc # "done"
        /\ req'[op].pc = "done"
        /\ req'[op].resp.status \in {400, 401, 403})
         => /\ req'[op].calls = <<>>
            /\ files' = files /\ objects' = objects /\ history' = history]_vars

C6_Witness ==
  /\ Answered("delete") /\ Status("delete") = 403
  /\ req["delete"].ev.claims.groups = GStr(viewer)
  /\ req["delete"].ev.arg \in DOMAIN files
  /\ files[req["delete"].ev.arg].s3Key \in objects
  /\ req["delete"].calls = <<>>

\* C7: with the existence check on, once the probe has reported the object
\* as not found the download handler has answered 404, the response carries
\* no URL and the URL-signing call was never made.
C7_MissingObjectIs404 ==
  LET D == req["download"] IN
  (D.calls # <<>> /\ D.loc.head \in {"404", "NoSuchKey", "NotFound"}) =>
    /\ D.pc = "done"
    /\ D.resp.status = 404
    /\ "url" \notin DOMAIN D.resp.body
    /\ \A i \in 1..Len(D.calls) : D.calls[i] # "s3.generate_presigned_url"

C7_Witness ==
  LET D == req["download"] IN
  /\ checkExists
  /\ D.pc = "done" /\ D.calls = <<"s3.head_object">>
  /\ D.loc.head = "404" /\ D.loc.key \notin objects
  /\ D.resp.status = 404

\* C8: when the lookup of delete-file finds no FileRecord, the handler
\* answers 404 having made no call but the lookup, and the metadata table
\* and the object store are unchanged.
C8_MissingRecordIs404 ==
  [][(/\ req["delete"].pc = "get"
      /\ req'["delete"].pc # "get"
      /\ req'["delete"].loc.item = "none")
       => /\ req'["delete"].pc = "done"
          /\ req'["delete"].resp.status = 404
          /\ req'["delete"].calls = <<"files_table.get_item">>
          /\ files' = files /\ objects' = objects]_vars

C8_Witness ==
  LET D == req["delete"] IN
  /\ D.pc = "done" /\ D.resp.status = 404
  /\ D.ev.claims.groups = GList(<<Admin>>)
  /\ D.loc.item = "none" /\ D.loc.file_id \notin DOMAIN files
  /\ DOMAIN files # {} /\ objects # {}

\* C9: when the metadata-table delete raises, delete-file answers 500, not
\* 200 with deleted:true, and the FileRecord is still in the table, whether
\* the object deletion before it succeeded or failed.
C9_MetadataFailureIsFatal ==
  LET D == req["delete"] IN
  (D.calls # <<>> /\ D.loc.ddb = "raised") =>
    /\ D.pc = "done"
    /\ D.resp.status = 500
    /\ "deleted" \notin DOMAIN D.resp.body
    /\ D.loc.file_id \in DOMAIN files

C9_Witness ==
  LET D == req["delete"] IN
  /\ D.pc = "done" /\ D.calls # <<>>
  /\ D.loc.s3 = "ok" /\ D.loc.ddb = "raised"
  /\ D.resp.status = 500
  /\ D.loc.s3_key \notin objects

\* C10: when the object-store delete fails, delete-file still goes on to the
\* metadata delete, and if that succeeds it answers 200 with deleted:true,
\* the FileRecord is gone and the response says nothing of the failure.
C10_ObjectFailureNotSurfaced ==
  LET D == req["delete"] IN
  (D.pc = "done" /\ D.calls # <<>> /\ D.loc.s3 = "raised") =>
    /\ D.loc.ddb # "pending"
    /\ D.loc.ddb = "ok" =>
         /\ D.resp.status = 200
         /\ D.resp.body = [deleted |-> TRUE, fileId |-> D.loc.file_id,
                           s3Key |-> D.loc.s3_key]
         /\ D.loc.file_id \notin DOMAIN files

C10_Witness ==
  LET D == req["delete"] IN
  /\ D.pc = "done" /\ D.calls # <<>>
  /\ D.loc.s3 = "raised" /\ D.loc.ddb = "ok"
  /\ D.resp.status = 200
  /\ D.loc.s3_key \in objects

\* The identity of the caller: the first present of the email, the
\* username-like claim and the subject, else the sentinel
CallerIdentity(claims) ==
  IF claims.email # "" THEN claims.email
  ELSE IF claims.username # "" THEN claims.username
  ELSE IF claims.sub # "" THEN claims.sub
  ELSE "unknown-user"

\* C11: once the download URL has been signed, the answer is 200 with that
\* url and expiresIn whether the audit write succeeded or raised.
C11_AuditFailureSwallowed ==
  LET D == req["download"] IN
  (D.pc = "done" /\ D.calls # <<>> /\ D.loc.sign = "ok") =>
    /\ D.loc.audit \in {"ok", "raised"}
    /\ D.resp = Resp(200, [url |-> D.loc.url, expiresIn |-> TTL])
    /\ D.loc.url.key = Unquote(D.ev.arg)

C11_Witness ==
  LET D == req["download"] IN
  /\ D.pc = "done" /\ D.calls # <<>>
  /\ D.loc.sign = "ok" /\ D.loc.audit = "raised"
  /\ D.resp.status = 200
  /\ D.loc.download_id \notin DOMAIN history

\* C12: an upload answered 200 carries a fileId drawn by the server and new
\* to the table, key = uploads/{fileId}/{filename} and uploadedBy = the
\* caller's identity, the caller holds uploader or admin, and the step that
\* answers has stored the FileRecord with these values; when the metadata
\* write raises the answer is 500 without a url and nothing is stored.
C12_UploadRecordsWhatItReturns ==
  [][LET U == req["upload"]
         V == req'["upload"]
         b == V.resp.body IN
     (U.pc # "done" /\ V.pc = "done") =>
       /\ V.resp.status = 200 =>
            /\ U.pc = "put"
            /\ V.ev.arg # ""
            /\ CIIntersects(HeldGroups(V.ev.claims), {uploader, admin})
            /\ b.fileId = FileIdOf(nextFile)
            /\ b.fileId \notin DOMAIN files
            /\ b.key = <<"uploads", "/", b.fileId, "/", V.ev.arg>>
            /\ b.uploadedBy = CallerIdentity(V.ev.claims)
            /\ b.url.key = b.key
            /\ b.fileId \in DOMAIN files'
            /\ files'[b.fileId].fileId = b.fileId
            /\ files'[b.fileId].s3Key = b.key
            /\ files'[b.fileId].filename = V.ev.arg
            /\ files'[b.fileId].uploadedBy = b.uploadedBy
       /\ (U.pc = "put" /\ V.loc.put = "raised") =>
            /\ V.resp.status = 500
            /\ "url" \notin DOMAIN b
            /\ files' = files]_vars

C12_Witness ==
  LET U == req["upload"] IN
  /\ U.pc = "done" /\ U.resp.status = 200
  /\ U.ev.claims = Claims("e@x", "u1", "s1", GStr(uploader))
  /\ U.resp.body.uploadedBy = "e@x"
  /\ U.resp.body.fileId \in DOMAIN files

\* C13: with the existence check off, an authorized download request with a
\* key never probes the object store, and once the URL is signed it is
\* answered 200 with that URL whether or not an object is under the key.
C13_NoProbeWhenCheckDisabled ==
  LET D == req["download"] IN
  (/\ ~checkExists
   /\ D.pc # "idle"
   /\ CIIntersects(HeldGroups(D.ev.claims), PolicyRow("download"))
   /\ D.ev.arg # <<>>) =>
    /\ D.pc \in {"sign", "audit", "done"}
    /\ \A i \in 1..Len(D.calls) : D.calls[i] # "s3.head_object"
    /\ D.loc.head = "unprobed"
    /\ (D.pc = "done" /\ D.loc.sign = "ok") =>
         /\ D.resp.status = 200
         /\ D.resp.body.url = [method |-> "get_object", key |-> Unquote(D.ev.arg),
                               expires |-> TTL]
    /\ (D.pc = "done" /\ D.resp.status # 200) => D.loc.sign = "raised"

C13_Witness ==
  LET D == req["download"] IN
  /\ ~checkExists
  /\ D.pc = "done" /\ D.resp.status = 200
  /\ D.resp.body.url.key \notin objects
  /\ D.calls = <<"s3.generate_presigned_url", "history_table.put_item">>

C15_RecordCreatedMeansWritten ==
  [][LET R == req["record"]
         Q == req'["record"]
         b == Q.resp.body IN
     (R.pc # "done" /\ Q.pc = "done") =>
       /\ Q.resp.status = 201 =>
            /\ R.pc = "put"
            /\ CIIntersects(HeldGroups(Q.ev.claims), PolicyRow("record"))
            /\ b = [recordCreated |-> TRUE, downloadId |-> b.downloadId,
                    s3Key |-> Q.ev.arg]
            /\ Q.ev.arg # <<>>
            /\ b.downloadId \notin DOMAIN history
            /\ b.downloadId \in DOMAIN history'
            /\ history'[b.downloadId].downloadId = b.downloadId
            /\ history'[b.downloadId].s3Key = Q.ev.arg
       /\ (R.pc = "put" /\ Q.loc.put = "raised") =>
            /\ Q.resp.status = 500
            /\ history' = history]_vars

C15_Witness ==
  LET R == req["record"] IN
  /\ R.pc = "done" /\ R.resp.status = 201
  /\ R.ev.claims.groups = GStr(viewer)
  /\ R.resp.body.downloadId \in DOMAIN history
  /\ history[R.resp.body.downloadId].s3Key = R.ev.arg

\* C16: every step keeps each DownloadAuditRecord as it was written, adds
\* at most one record, under a downloadId new to the table, and only the
\* audit write of issue-download-url or of record-download adds one.
C16_AuditAppendOnly ==
  [][/\ \A d \in DOMAIN history :
          d \in DOMAIN history' /\ history'[d] = history[d]
     /\ Cardinality(DOMAIN history' \ DOMAIN history) <= 1
     /\ history' # history =>
          \/ req["download"].pc = "audit" /\ req'["download"].pc = "done"
          \/ req["record"].pc = "put" /\ req'["record"].pc = "done"]_vars

C16_Witness ==
  /\ Cardinality(DOMAIN history) = 2
  /\ \E d \in DOMAIN history : "userGroups" \in DOMAIN history[d]
  /\ \E d \in DOMAIN history : "requesterGroups" \in DOMAIN history[d]
  /\ req["delete"].pc = "done" /\ req["delete"].resp.status = 200

\* C17 (as stated): with the existence check on, a download answered 200
\* had an object under its key when the URL was generated, whatever a
\* concurrent delete-file does between the probe and the signing.
C17_ObjectPresentWhenSigned ==
  LET D == req["download"] IN
  (checkExists /\ D.pc = "done" /\ D.resp.status = 200) =>
    D.loc.signedWhilePresent

\* C17 (amended): with the existence check on, a URL is signed and 200
\* answered only after the handler's own probe found the object, and a
\* probe that reports not-found is answered 404 with no URL generated; a
\* delete that removes the object after the probe does not stop the URL.
C17_ProbeFoundObjectBeforeSigning ==
  LET D == req["download"] IN
  checkExists =>
    /\ (D.pc \in {"sign", "audit"} \/ (D.pc = "done" /\ D.resp.status = 200)) =>
         /\ D.calls[1] = "s3.head_object"
         /\ D.loc.head = ""
    /\ (D.pc = "done" /\ D.calls # <<>> /\ D.loc.head \in NotFoundCodes) =>
         /\ D.resp.status = 404
         /\ D.calls = <<"s3.head_object">>

C17_Witness ==
  LET D == req["download"]
      E == req["delete"] IN
  /\ checkExists
  /\ D.pc = "done" /\ D.resp.status = 200
  /\ D.loc.head = ""
  /\ ~D.loc.signedWhilePresent
  /\ D.resp.body.url.key \notin objects
  /\ E.pc \in {"delmeta", "done"} /\ E.calls # <<>>
  /\ E.loc.s3_key = D.loc.key

====
